---- MODULE Spec2Model ----
(***************************************************************************)
(* Model of src/main.py: the single-shot endpoint POST /mcp (mcp_endpoint) *)
(* and the JSON-RPC dispatcher POST /mcp/rpc (mcp_rpc) with its tool       *)
(* registry TOOLS, the three tool handlers and the database context        *)
(* manager get_db_cursor.                                                  *)
(*                                                                         *)
(* Python values are modelled as tagged records [t |-> type, v |-> value]: *)
(*   "null"  None                 "bool"  True / False                     *)
(*   "int"   an int               "float" a float, v is its repr           *)
(*   "str"   a str                "list"  a list, v is a sequence          *)
(*   "dict"  a dict, v is the sequence of <<key, value>> pairs in          *)
(*           insertion order (keys are Python str, as JSON gives them)     *)
(* Logging calls are left out: logging never raises and keeps no state the *)
(* handlers read.                                                          *)
(***************************************************************************)
EXTENDS Integers, Sequences, FiniteSets, TLC

VARIABLES
    TOOLS,   \* the module-level registry dict, in insertion order
    req,     \* the request the transport delivered last
    out,     \* what the handler gave back to the transport for it
    calls,   \* the tool callables invoked while handling it
    db       \* the MariaDB server side: connections and what ran on them

vars == <<TOOLS, req, out, calls, db>>

----------------------------------------------------------------------------
(* Bounds of the model *)

\* connections the database accepts before the model stops issuing queries
MaxConn == 2

----------------------------------------------------------------------------
(* Python values *)

JNull == [t |-> "null", v |-> 0]
JBool(b) == [t |-> "bool", v |-> b]
JInt(i) == [t |-> "int", v |-> i]
JFloat(s) == [t |-> "float", v |-> s]
JStr(s) == [t |-> "str", v |-> s]
JList(items) == [t |-> "list", v |-> items]
JDict(pairs) == [t |-> "dict", v |-> pairs]

\* bool(x): the truth value Python gives x in `not x` and `x or y`
Truthy(x) ==
    CASE x.t = "null" -> FALSE
      [] x.t = "bool" -> x.v
      [] x.t = "int" -> x.v # 0
      [] x.t = "float" -> x.v \notin {"0.0", "-0.0"}
      [] x.t = "str" -> x.v # ""
      [] x.t = "list" -> Len(x.v) > 0
      [] x.t = "dict" -> Len(x.v) > 0

\* x or y
PyOr(x, y) == IF Truthy(x) THEN x ELSE y

\* hash(x) succeeds: lists and dicts are unhashable
Hashable(x) == x.t \notin {"list", "dict"}

\* key in d, for a dict d
DictHas(d, k) == \E i \in 1..Len(d.v) : d.v[i][1] = k

\* d.get(k): the value under k, None when the key is missing
DictGet(d, k) ==
    IF DictHas(d, k)
    THEN d.v[CHOOSE i \in 1..Len(d.v) : d.v[i][1] = k][2]
    ELSE JNull

\* isinstance(x, int): bool is a subclass of int
IsInstanceInt(x) == x.t \in {"int", "bool"}

\* the number an int or a bool compares as
IntValue(x) == IF x.t = "bool" THEN (IF x.v THEN 1 ELSE 0) ELSE x.v

RECURSIVE Repr(_)
RECURSIVE ReprItems(_, _)
RECURSIVE ReprPairs(_, _)

\* repr(x)
Repr(x) ==
    CASE x.t = "null" -> "None"
      [] x.t = "bool" -> IF x.v THEN "True" ELSE "False"
      [] x.t = "int" -> ToString(x.v)
      [] x.t = "float" -> x.v
      [] x.t = "str" -> "'" \o x.v \o "'"
      [] x.t = "list" -> "[" \o ReprItems(x.v, 1) \o "]"
      [] x.t = "dict" -> "{" \o ReprPairs(x.v, 1) \o "}"

ReprItems(items, i) ==
    IF i > Len(items) THEN ""
    ELSE Repr(items[i]) \o (IF i < Len(items) THEN ", " ELSE "")
         \o ReprItems(items, i + 1)

ReprPairs(pairs, i) ==
    IF i > Len(pairs) THEN ""
    ELSE "'" \o pairs[i][1] \o "': " \o Repr(pairs[i][2])
         \o (IF i < Len(pairs) THEN ", " ELSE "")
         \o ReprPairs(pairs, i + 1)

\* str(x): a str is itself, everything else prints as its repr
Str(x) == IF x.t = "str" THEN x.v ELSE Repr(x)

LowerChars == "abcdefghijklmnopqrstuvwxyz"
UpperChars == "ABCDEFGHIJKLMNOPQRSTUVWXYZ"

UpperChar(c) ==
    IF \E k \in 1..26 : SubSeq(LowerChars, k, k) = c
    THEN LET k == CHOOSE k \in 1..26 : SubSeq(LowerChars, k, k) = c
         IN SubSeq(UpperChars, k, k)
    ELSE c

RECURSIVE UpperFrom(_, _)
UpperFrom(s, i) ==
    IF i > Len(s) THEN ""
    ELSE UpperChar(SubSeq(s, i, i)) \o UpperFrom(s, i + 1)

\* s.upper()
Upper(s) == UpperFrom(s, 1)

RECURSIVE JoinFrom(_, _, _)
JoinFrom(sep, items, i) ==
    IF i > Len(items) THEN ""
    ELSE items[i].v \o (IF i < Len(items) THEN sep ELSE "")
         \o JoinFrom(sep, items, i + 1)

\* sep.join(items), for a list of str
Join(sep, items) == JoinFrom(sep, items, 1)

----------------------------------------------------------------------------
(* The database: pymysql behind get_db_cursor *)

\* what the MariaDB collaborator does with one query
DbOutcomes == {"ok", "connect_fail", "execute_fail", "fetch_fail", "commit_fail"}

\* the rows of manse_data a fetchall can give back
Row1 == JDict(<< <<"id", JInt(1)>> >>)
Row2 == JDict(<< <<"id", JInt(2)>> >>)
RowSets == {<<>>, <<Row1, Row2>>}

\* open: the connections the server holds; next: how many it has accepted;
\* uses[c]: how many handler invocations ran a statement on connection c;
\* log: what the request handled last did on the database
DbInit == [open |-> {}, next |-> 0, uses |-> <<>>, log |-> <<>>]

DbLog(d, event) == [d EXCEPT !.log = Append(@, event)]

\* pymysql.connect(**DB_CONFIG) that succeeds: a new connection, never a
\* pooled one
DbConnect(d) ==
    LET c == d.next + 1
    IN DbLog([d EXCEPT !.open = @ \cup {c}, !.next = c, !.uses = Append(@, 0)],
             [op |-> "connect", conn |-> c, ok |-> TRUE])

\* cur.execute(sql, params) on connection c
DbExecute(d, c, sql, params, ok) ==
    DbLog([d EXCEPT !.uses[c] = @ + 1],
          [op |-> "execute", conn |-> c, ok |-> ok, sql |-> sql, params |-> params])

\* conn.close(); an exception of close itself is swallowed
DbClose(d, c) ==
    DbLog([d EXCEPT !.open = @ \ {c}], [op |-> "close", conn |-> c, ok |-> TRUE])

\* get_db_cursor with the close on the path without an exception only
GetDbCursorNoFinally(d, outcome, sql, params) ==
    IF outcome = "connect_fail"
    THEN [raised |-> TRUE,
          db |-> DbLog(d, [op |-> "connect", conn |-> 0, ok |-> FALSE])]
    ELSE LET d1 == DbConnect(d)
             c == d1.next
             d2 == DbExecute(d1, c, sql, params, outcome # "execute_fail")
             d3 == IF outcome = "execute_fail" THEN d2
                   ELSE DbLog(d2, [op |-> "fetchall", conn |-> c,
                                   ok |-> outcome # "fetch_fail"])
             bodyRaised == outcome \in {"execute_fail", "fetch_fail"}
             d4 == IF bodyRaised THEN d3
                   ELSE DbLog(d3, [op |-> "commit", conn |-> c,
                                   ok |-> outcome # "commit_fail"])
             raised == bodyRaised \/ outcome = "commit_fail"
         IN [raised |-> raised, db |-> IF raised THEN d4 ELSE DbClose(d4, c)]

\* `with get_db_cursor() as cur: cur.execute(sql, params); rows = cur.fetchall()`
\* conn = None; try: connect, with cursor: the body, commit; except: raise;
\* finally: if conn: close
GetDbCursor(d, outcome, sql, params) ==
    IF outcome = "connect_fail"
    THEN [raised |-> TRUE,
          db |-> DbLog(d, [op |-> "connect", conn |-> 0, ok |-> FALSE])]
    ELSE LET d1 == DbConnect(d)
             c == d1.next
             d2 == DbExecute(d1, c, sql, params, outcome # "execute_fail")
             d3 == IF outcome = "execute_fail" THEN d2
                   ELSE DbLog(d2, [op |-> "fetchall", conn |-> c,
                                   ok |-> outcome # "fetch_fail"])
             bodyRaised == outcome \in {"execute_fail", "fetch_fail"}
             d4 == IF bodyRaised THEN d3
                   ELSE DbLog(d3, [op |-> "commit", conn |-> c,
                                   ok |-> outcome # "commit_fail"])
             raised == bodyRaised \/ outcome = "commit_fail"
         IN [raised |-> raised, db |-> DbClose(d4, c)]

----------------------------------------------------------------------------
(* Tool handlers *)

\* what a callable gives back: a return value or a raised exception
Returned(value, d) == [exc |-> "none", msg |-> "", value |-> value, db |-> d]
Raised(exc, msg, d) == [exc |-> exc, msg |-> msg, value |-> JNull, db |-> d]

\* type(x).__name__
TypeName(x) == IF x.t = "null" THEN "NoneType" ELSE x.t

\* arguments.get on something that is not a dict
NoGet(arguments, d) ==
    Raised("AttributeError",
           "'" \o TypeName(arguments) \o "' object has no attribute 'get'", d)

\* _tool_echo reading arguments["text"] instead of arguments.get("text")
ToolEchoKeyError(arguments, d) ==
    IF arguments.t # "dict" THEN Raised("TypeError", "string indices must be integers", d)
    ELSE IF ~DictHas(arguments, "text") THEN Raised("KeyError", "'text'", d)
    ELSE Returned([type |-> "text", content |-> Str(DictGet(arguments, "text"))], d)

ToolEcho(arguments, d) ==
    IF arguments.t # "dict" THEN NoGet(arguments, d)
    ELSE LET text == DictGet(arguments, "text")
         IN IF text.t = "null"
            THEN Raised("ValueError", "'text' field required", d)
            ELSE Returned([type |-> "text", content |-> Str(text)], d)

ToolUpper(arguments, d) ==
    IF arguments.t # "dict" THEN NoGet(arguments, d)
    ELSE LET text == DictGet(arguments, "text")
         IN IF text.t = "null"
            THEN Raised("ValueError", "'text' field required", d)
            ELSE Returned([type |-> "text", content |-> Upper(Str(text))], d)

\* isinstance(columns, list) and all(isinstance(c, str) for c in columns)
IsListOfStr(columns) ==
    /\ columns.t = "list"
    /\ \A i \in 1..Len(columns.v) : columns.v[i].t = "str"

\* isinstance(limit, int) and 1 <= limit <= 500
LimitOk(limit) ==
    /\ IsInstanceInt(limit)
    /\ IntValue(limit) >= 1
    /\ IntValue(limit) <= 500

ToolQueryManse(arguments, d, outcome, rows) ==
    IF arguments.t # "dict" THEN NoGet(arguments, d)
    ELSE LET columns == PyOr(DictGet(arguments, "columns"), JList(<<JStr("*")>>))
             where_clause == DictGet(arguments, "where")
             limit == PyOr(DictGet(arguments, "limit"), JInt(10))
         IN IF ~IsListOfStr(columns)
            THEN Raised("ValueError", "'columns' must be a list of strings", d)
            ELSE IF ~LimitOk(limit)
            THEN Raised("ValueError", "'limit' must be int 1-500", d)
            ELSE LET select_part == Join(", ", columns.v)
                     q1 == "SELECT " \o select_part \o " FROM manse_data"
                     q2 == IF Truthy(where_clause)
                           THEN q1 \o " WHERE " \o Str(where_clause)
                           ELSE q1
                     base_query == q2 \o " LIMIT %s"
                     params == <<limit>>
                     cur == GetDbCursor(d, outcome, base_query, params)
                 IN IF cur.raised
                    THEN Raised("ValueError", "Database query failed", cur.db)
                    ELSE Returned([type |-> "json",
                                   content |-> [rows |-> rows, count |-> Len(rows)]],
                                  cur.db)

----------------------------------------------------------------------------
(* The registry *)

TextSchema ==
    [type |-> "object",
     properties |-> [text |-> [type |-> "string"]],
     required |-> <<"text">>]

QuerySchema ==
    [type |-> "object",
     properties |->
        [columns |-> [type |-> "array", items |-> [type |-> "string"],
                      description |-> "Columns to select"],
         where |-> [type |-> "string",
                    description |-> "Raw SQL WHERE clause without 'WHERE'"],
         limit |-> [type |-> "integer", minimum |-> 1, maximum |-> 500,
                    default |-> 10]]]

\* Tool(name=..., description=..., input_schema=...)
Tool(name, description, input_schema) ==
    [name |-> name, description |-> description, input_schema |-> input_schema]

\* the TOOLS dict as the module builds it: key, then the entry's two items
ToolsInit ==
    << [key |-> "echo",
        callable |-> "_tool_echo",
        meta |-> Tool("echo", "Echo back the provided text", TextSchema)],
       [key |-> "uppercase",
        callable |-> "_tool_upper",
        meta |-> Tool("uppercase", "Return the text in uppercase", TextSchema)],
       [key |-> "query_manse",
        callable |-> "_tool_query_manse",
        meta |-> Tool("query_manse",
                      "Run a SELECT query on manse.manse_data table with optional filters (limit default 10)",
                      QuerySchema)] >>

\* TOOLS.get(name): hashing an unhashable name raises TypeError; a name that
\* equals no key gives None
ToolsGet(tools, name) ==
    IF ~Hashable(name)
    THEN [exc |-> "TypeError", found |-> FALSE, entry |-> tools[1]]
    ELSE IF name.t = "str" /\ \E i \in 1..Len(tools) : tools[i].key = name.v
    THEN [exc |-> "none", found |-> TRUE,
          entry |-> tools[CHOOSE i \in 1..Len(tools) : tools[i].key = name.v]]
    ELSE [exc |-> "none", found |-> FALSE, entry |-> tools[1]]

\* tool_entry["callable"](arguments)
Invoke(callable, arguments, d, outcome, rows) ==
    CASE callable = "_tool_echo" -> ToolEcho(arguments, d)
      [] callable = "_tool_upper" -> ToolUpper(arguments, d)
      [] callable = "_tool_query_manse" -> ToolQueryManse(arguments, d, outcome, rows)

\* the listing built from the registry entries instead of their meta
ListToolsEntries(tools) == [i \in 1..Len(tools) |-> tools[i]]

\* [t["meta"].model_dump() for t in TOOLS.values()]
ListTools(tools) == [i \in 1..Len(tools) |-> tools[i].meta]

----------------------------------------------------------------------------
(* Responses *)

\* JSONRPCSuccess(id=..., result=...)
JsonRpcSuccess(id_val, result) ==
    [kind |-> "success", jsonrpc |-> "2.0", id |-> id_val, result |-> result]

\* _jsonrpc_error with the id passed through str()
JsonRpcErrorStrId(id_val, code, message, data) ==
    [kind |-> "error", jsonrpc |-> "2.0",
     id |-> IF id_val.t = "null" THEN id_val ELSE JStr(Str(id_val)),
     error |-> [code |-> code, message |-> message, data |-> data]]

\* _jsonrpc_error(id_val, code, message, data)
JsonRpcError(id_val, code, message, data) ==
    [kind |-> "error", jsonrpc |-> "2.0", id |-> id_val,
     error |-> [code |-> code, message |-> message, data |-> data]]

----------------------------------------------------------------------------
(* The JSON-RPC dispatcher *)

\* what mcp_rpc hands to the transport: the responses it returned, or the
\* exception that left it
Handled(response, invoked, d) ==
    [responses |-> <<response>>, exc |-> "none", calls |-> invoked, db |-> d]
Escaped(exc, invoked, d) ==
    [responses |-> <<>>, exc |-> exc, calls |-> invoked, db |-> d]

\* the version test with the comparison inverted
VersionMismatchInverted(jsonrpc) == jsonrpc = "2.0"

\* req.jsonrpc != "2.0"
VersionMismatch(jsonrpc) == jsonrpc # "2.0"

\* the mcp.call_tool branch
CallTool(r, params, tools, d, outcome, rows) ==
    LET name == DictGet(params, "name")
        arguments == PyOr(DictGet(params, "arguments"), JDict(<<>>))
    IN IF ~Truthy(name)
       THEN Handled(JsonRpcError(r.id, -32602, "Missing 'name' in params", JNull),
                    <<>>, d)
       ELSE LET tool_entry == ToolsGet(tools, name)
            IN IF tool_entry.exc # "none"
               THEN Escaped(tool_entry.exc, <<>>, d)
               ELSE IF ~tool_entry.found
               THEN Handled(JsonRpcError(r.id, -32601,
                                         "Tool '" \o Str(name) \o "' not found", JNull),
                            <<>>, d)
               ELSE LET callable == tool_entry.entry.callable
                        res == Invoke(callable, arguments, d, outcome, rows)
                    IN IF res.exc = "none"
                       THEN Handled(JsonRpcSuccess(r.id, [outputs |-> <<res.value>>]),
                                    <<callable>>, res.db)
                       ELSE IF res.exc = "ValueError"
                       THEN Handled(JsonRpcError(r.id, -32602, res.msg, JNull),
                                    <<callable>>, res.db)
                       ELSE Handled(JsonRpcError(r.id, -32000, "Tool execution failure",
                                                 JStr(res.msg)),
                                    <<callable>>, res.db)

\* mcp_rpc(req)
McpRpcResult(r, tools, d, outcome, rows) ==
    IF VersionMismatch(r.jsonrpc)
    THEN Handled(JsonRpcError(r.id, -32600, "Invalid JSON-RPC version", JNull), <<>>, d)
    ELSE LET method == r.method
             params == PyOr(r.params, JDict(<<>>))
         IN IF method = "mcp.list_tools"
            THEN Handled(JsonRpcSuccess(r.id, [tools |-> ListTools(tools)]), <<>>, d)
            ELSE IF method = "mcp.call_tool"
            THEN CallTool(r, params, tools, d, outcome, rows)
            ELSE Handled(JsonRpcError(r.id, -32601,
                                      "Method '" \o method \o "' not found", JNull),
                         <<>>, d)

----------------------------------------------------------------------------
(* The single-shot endpoint *)

\* _derive_output_text without its dict-with-text branch
DeriveOutputTextGeneric(raw) == Str(raw)

\* _derive_output_text(raw); str() of a JSON value does not raise, so the
\* defensive except branch is never taken
DeriveOutputText(raw) ==
    IF raw.t = "dict" /\ DictHas(raw, "text")
    THEN Str(DictGet(raw, "text"))
    ELSE Str(raw)

\* MCPResponse(id=run_id, status="succeeded", model=..., outputs=[MCPOutput(...)])
MCPResponse(run_id, model, output_text) ==
    [kind |-> "mcp", id |-> run_id, status |-> "succeeded", model |-> model,
     outputs |-> <<[type |-> "text", content |-> output_text]>>]

\* mcp_endpoint(req), with the uuid4 it draws
McpEndpointResult(r, run_id) ==
    IF r.inputs.t = "null"
    THEN [responses |-> <<>>, exc |-> "HTTPException"]
    ELSE [responses |-> <<MCPResponse(run_id, r.model, DeriveOutputText(r.inputs))>>,
          exc |-> "none"]

----------------------------------------------------------------------------
(* The requests the transport delivers *)

D1(k, x) == JDict(<< <<k, x>> >>)
D2(k1, x1, k2, x2) == JDict(<< <<k1, x1>>, <<k2, x2>> >>)
D3(k1, x1, k2, x2, k3, x3) == JDict(<< <<k1, x1>>, <<k2, x2>>, <<k3, x3>> >>)

JsonrpcVals == {"2.0", "1.0"}
IdVals == {JInt(1), JStr("abc"), JNull}
MethodVals == {"mcp.list_tools", "mcp.call_tool", "mcp.unknown"}

\* values of params.name that are not the name of a tool
OtherNames ==
    {JNull, JStr(""), JInt(7), JStr("nope"),
     JList(<<JStr("echo")>>), D1("a", JInt(1))}

\* values of params.arguments for echo and uppercase
TextArgs ==
    {JDict(<<>>), D1("text", JStr("hello")), D1("text", JNull),
     D1("text", JInt(5)), D1("other", JStr("x")), JStr("abc")}

LimitVals ==
    {JInt(0), JInt(1), JInt(500), JInt(501), JStr("5"), JFloat("1.5"), JBool(TRUE)}

ColumnVals ==
    {JList(<<JStr("a"), JStr("b")>>), JStr("abc"), JList(<<JInt(1)>>)}

\* values of params.arguments for query_manse
QueryArgs ==
    {JDict(<<>>), JStr("abc")}
    \cup {D1("limit", l) : l \in LimitVals}
    \cup {D1("columns", c) : c \in ColumnVals}
    \cup {D3("columns", JList(<<JStr("a")>>), "where", JStr("x=1"), "limit", JInt(5)),
          D2("columns", JStr("abc"), "limit", JInt(0))}

ToolNames == {"echo", "uppercase", "query_manse"}

ParamsVals ==
    {JNull, JDict(<<>>)}
    \cup {D1("name", n) : n \in OtherNames}
    \cup {D1("name", JStr(n)) : n \in ToolNames}
    \cup {D2("name", JStr(n), "arguments", a) : n \in {"echo", "uppercase"}, a \in TextArgs}
    \cup {D2("name", JStr("query_manse"), "arguments", a) : a \in QueryArgs}

\* JSONRPCRequest: jsonrpc: str, id: str | int | None, method: str,
\* params: dict | None
RpcRequests ==
    [jsonrpc : JsonrpcVals, id : IdVals, method : MethodVals, params : ParamsVals]

InputVals ==
    {JNull, JStr("hello"), JStr(""), JInt(0), JList(<<JInt(1), JStr("a")>>),
     JDict(<<>>), D1("text", JStr("hello")), D1("text", JStr("")),
     D1("text", JInt(5)), D1("text", JNull), D1("a", JInt(1)),
     D2("a", JInt(1), "text", JStr("x"))}

\* MCPRequest: model: str | None, inputs: Any; instructions and metadata are
\* never read
McpRequests == [model : {JNull, JStr("m1")}, inputs : InputVals]

\* the values uuid.uuid4() can give
RunIds == {"uuid-1", "uuid-2"}

\* the collaborator's behaviour for one query: an outcome, and the rows of a
\* fetchall that succeeds
Envs ==
    {[outcome |-> "ok", rows |-> rs] : rs \in RowSets}
    \cup {[outcome |-> o, rows |-> <<>>] : o \in DbOutcomes \ {"ok"}}

\* the request gets as far as the database
ReachesDb(r, tools) == McpRpcResult(r, tools, DbInit, "ok", <<>>).db.log # <<>>

----------------------------------------------------------------------------
(* The state machine *)

Init ==
    /\ TOOLS = ToolsInit
    /\ req = [endpoint |-> "none"]
    /\ out = [responses |-> <<>>, exc |-> "none"]
    /\ calls = <<>>
    /\ db = DbInit

\* POST /mcp/rpc
McpRpc ==
    \E r \in RpcRequests :
        \E env \in IF ReachesDb(r, TOOLS) THEN Envs
                   ELSE {[outcome |-> "ok", rows |-> <<>>]} :
            LET res == McpRpcResult(r, TOOLS, [db EXCEPT !.log = <<>>],
                                    env.outcome, env.rows)
            IN /\ res.db.next <= MaxConn
               /\ req' = [endpoint |-> "rpc", body |-> r]
               /\ out' = [responses |-> res.responses, exc |-> res.exc]
               /\ calls' = res.calls
               /\ db' = res.db
               /\ UNCHANGED TOOLS

\* POST /mcp and POST /mcp/
McpEndpoint ==
    \E r \in McpRequests, run_id \in RunIds :
        /\ req' = [endpoint |-> "mcp", body |-> r]
        /\ out' = McpEndpointResult(r, run_id)
        /\ calls' = <<>>
        /\ db' = [db EXCEPT !.log = <<>>]
        /\ UNCHANGED TOOLS

Next == McpRpc \/ McpEndpoint

Spec == Init /\ [][Next]_vars

----------------------------------------------------------------------------
(* Reading the last request and its outcome *)

IsRpc == req.endpoint = "rpc"
IsMcp == req.endpoint = "mcp"

\* mcp_rpc returned one response and raised nothing
Answered == Len(out.responses) = 1 /\ out.exc = "none"

\* the response is an error with this code
ErrorCode(code) ==
    /\ Answered
    /\ out.responses[1].kind = "error"
    /\ out.responses[1].error.code = code

ValidVersion == req.body.jsonrpc = "2.0"
IsCallTool == ValidVersion /\ req.body.method = "mcp.call_tool"

\* params.name and params.arguments as the request carries them (None when
\* params or the key is missing)
ReqName ==
    IF req.body.params.t = "dict" THEN DictGet(req.body.params, "name") ELSE JNull
ReqArguments ==
    IF req.body.params.t = "dict" THEN DictGet(req.body.params, "arguments")
    ELSE JNull

Calls(name) == IsCallTool /\ ReqName = JStr(name)

\* some call to the database raised
CollaboratorFailed == \E i \in 1..Len(db.log) : ~db.log[i].ok

----------------------------------------------------------------------------
(* Properties *)

\* C1: every RPC request the transport delivers gets exactly one Response
\* and no exception leaves mcp_rpc
C1_EveryRequestAnswered == IsRpc => Answered

\* C2: a failure of connect, execute or fetch in a query call with valid
\* parameters is answered with the error code -32000
C2_CollaboratorFailureIsInternalError ==
    (IsRpc /\ Calls("query_manse") /\ CollaboratorFailed) => ErrorCode(-32000)

\* the limit argument is supplied and is not an integer in [1, 500]; a bool
\* counts as the integer Python takes it for
LimitSuppliedAndBad ==
    /\ ReqArguments.t = "dict"
    /\ DictHas(ReqArguments, "limit")
    /\ LET limit == DictGet(ReqArguments, "limit")
       IN ~IsInstanceInt(limit) \/ IntValue(limit) < 1 \/ IntValue(limit) > 500

\* C3: a query call whose limit is supplied and is not an integer in
\* [1, 500] is answered with -32602 and the database is never called
C3_BadLimitRejected ==
    (IsRpc /\ Calls("query_manse") /\ LimitSuppliedAndBad)
        => (ErrorCode(-32602) /\ db.log = <<>>)

\* C4: a request whose jsonrpc is not "2.0" is answered with -32600 whatever
\* its method and params; no tool listing is produced and no handler runs
C4_VersionCheckedFirst ==
    (IsRpc /\ req.body.jsonrpc # "2.0")
        => (ErrorCode(-32600) /\ calls = <<>> /\ db.log = <<>>)

C4_Witness ==
    /\ IsRpc
    /\ req.body.jsonrpc = "1.0"
    /\ req.body.method = "mcp.list_tools"
    /\ ErrorCode(-32600)

\* C5: whenever mcp_rpc returns a Response, success or error, its id is the
\* request's id, same type and same value
C5_IdEchoed ==
    (IsRpc /\ Len(out.responses) >= 1) => out.responses[1].id = req.body.id

C5_Witness ==
    /\ IsRpc
    /\ req.body.id = JInt(1)
    /\ ErrorCode(-32000)
    /\ out.responses[1].id = JInt(1)

\* the arguments are absent, empty, or a mapping without a text key
TextMissing ==
    \/ ~Truthy(ReqArguments)
    \/ ReqArguments.t = "dict" /\ ~DictHas(ReqArguments, "text")

\* C6: echo and uppercase called without a text argument answer with -32602
\* and the message "'text' field required"
C6_MissingTextRejected ==
    (IsRpc /\ (Calls("echo") \/ Calls("uppercase")) /\ TextMissing)
        => (ErrorCode(-32602)
            /\ out.responses[1].error.message = "'text' field required")

C6_Witness ==
    /\ IsRpc
    /\ Calls("uppercase")
    /\ ReqArguments = D1("other", JStr("x"))
    /\ ErrorCode(-32602)

\* C7: an unknown method, and a call_tool whose params.name is given and is
\* not a registered tool name, are answered with -32601 and no handler runs
C7_UnknownIsMethodNotFound ==
    (/\ IsRpc
     /\ ValidVersion
     /\ \/ req.body.method \notin {"mcp.list_tools", "mcp.call_tool"}
        \/ /\ req.body.method = "mcp.call_tool"
           /\ ReqName # JNull
           /\ ReqName \notin {JStr(TOOLS[i].key) : i \in 1..Len(TOOLS)})
        => (ErrorCode(-32601) /\ calls = <<>>)

\* the payload has no text key
NoTextKey == req.body.inputs.t # "dict" \/ ~DictHas(req.body.inputs, "text")

\* C8: a single-shot request with a payload succeeds with one text output:
\* the string under text when the payload is a mapping {text: S}, the textual
\* form of the whole payload when it has no text key
C8_SingleShotOutput ==
    (IsMcp /\ req.body.inputs # JNull)
        => /\ Answered
           /\ out.responses[1].status = "succeeded"
           /\ Len(out.responses[1].outputs) = 1
           /\ out.responses[1].outputs[1].type = "text"
           /\ LET content == out.responses[1].outputs[1].content
                  inputs == req.body.inputs
              IN /\ (~NoTextKey /\ DictGet(inputs, "text").t = "str")
                        => content = DictGet(inputs, "text").v
                 /\ NoTextKey => content = Str(inputs)
                 /\ inputs = JInt(0) => content = "0"
                 /\ inputs = D1("a", JInt(1)) => content = "{'a': 1}"

C8_Witness ==
    /\ IsMcp
    /\ req.body.inputs = D1("text", JStr("hello"))
    /\ Answered
    /\ out.responses[1].outputs[1].content = "hello"

\* C9: list_tools, whatever its params, succeeds with one entry per
\* registered tool in registration order, each made of name, description and
\* input_schema only; echo and uppercase are listed; the registry stays as
\* built
C9_ListTools ==
    /\ TOOLS = ToolsInit
    /\ (IsRpc /\ ValidVersion /\ req.body.method = "mcp.list_tools")
        => /\ Answered
           /\ out.responses[1].kind = "success"
           /\ LET tools == out.responses[1].result.tools
              IN /\ Len(tools) = Len(TOOLS)
                 /\ \A i \in 1..Len(tools) :
                        /\ DOMAIN tools[i] = {"name", "description", "input_schema"}
                        /\ tools[i].name = TOOLS[i].key
                        /\ tools[i].description = TOOLS[i].meta.description
                        /\ tools[i].input_schema = TOOLS[i].meta.input_schema
                 /\ {"echo", "uppercase"} \subseteq {tools[i].name : i \in 1..Len(tools)}

C9_Witness ==
    /\ IsRpc
    /\ ValidVersion
    /\ req.body.method = "mcp.list_tools"
    /\ req.body.params = D1("name", JStr("nope"))
    /\ Answered
    /\ out.responses[1].kind = "success"

\* C10: no connection stays open after a request; a query that reaches the
\* database makes one connect, the connection it gets is a new one that no
\* other invocation uses, and its close is the last thing done on it
C10_ConnectionScoped ==
    /\ db.open = {}
    /\ Len(db.uses) = db.next
    /\ \A c \in 1..db.next : db.uses[c] = 1
    /\ db.log # <<>> =>
        /\ db.log[1].op = "connect"
        /\ \A i \in 2..Len(db.log) : db.log[i].op # "connect"
        /\ db.log[1].ok =>
            /\ db.log[1].conn = db.next
            /\ \A i \in 1..Len(db.log) : db.log[i].conn = db.next
            /\ db.log[Len(db.log)].op = "close"
        /\ ~db.log[1].ok => Len(db.log) = 1

C10_Witness ==
    /\ IsRpc
    /\ Calls("query_manse")
    /\ \E i \in 1..Len(db.log) : db.log[i].op = "execute" /\ ~db.log[i].ok
    /\ db.log[Len(db.log)].op = "close"
    /\ db.next = 2
    /\ db.open = {}

====
